---- MODULE Spec2Model ----
(***************************************************************************)
(* WhisperZone (src/app.py): code-addressed chat rooms kept in a Redis     *)
(* hash per room ("members", "messages"), a Flask HTTP API (create-room,   *)
(* join-room, save-chat) and Socket.IO handlers (connect, message,         *)
(* disconnect).  Every handler is modelled as a process that takes one     *)
(* step per call to a shared service (Redis, MongoDB, the Socket.IO        *)
(* transport); the computation between two calls belongs to the step of    *)
(* the call that follows it.                                               *)
(***************************************************************************)
EXTENDS Integers, Sequences, FiniteSets, TLC

\* ---------------------------------------------------------------- bounds
NumClients == 2
NumCodes == 2
MaxCreates == 3
MaxMsgs == 2
MaxSaves == 2
MaxTime == 1

\* ------------------------------------------------------------ value sets
None == "None"

AllCodes == <<"AAAAAA", "BBBBBB", "CCCCCC", "DDDDDD">>

\* the codes random sampling can produce (26^6 in the program)
Codes == {AllCodes[i] : i \in 1..NumCodes}

Clients == 1..NumClients

Names == {"alice", "bob"}

\* request.json.get("name"): a name, the empty string, or no name at all
NameInputs == Names \cup {"", None}

\* request.json.get("code") / request.json.get("room")
CodeInputs == Codes \cup {"", None}

\* data["data"] of a message event
Texts == {"hi"}

\* Python truthiness of an optional string
Falsy(v) == v = None \/ v = ""

VARIABLES
    store,      \* Redis: code -> hash (a function on the fields that are set)
    archive,    \* MongoDB db.chats: the inserted documents, in insertion order
    session,    \* the Flask session of each client: [room, name], None when unset
    conn,       \* "closed" / "open": the client's Socket.IO connection
    groups,     \* Socket.IO rooms: code -> set of connections (sids)
    pc,         \* each client's position in the handler it is running
    loc,        \* the local variables of that handler
    now,        \* the last reading of the wall clock (seconds)
    last,       \* the step just taken: who, which, HTTP response, events emitted
    nCalls,     \* number of create-room calls that passed name validation
    returned,   \* history: [id, code] of every create-room call that returned 200
    bcast,      \* history: [room, content] of every chat message broadcast
    shared      \* history: two open connections of one room have had the same name

vars == <<store, archive, session, conn, groups, pc, loc, now, last,
          nCalls, returned, bcast, shared>>

\* ------------------------------------------------------------------ JSON
\* json.dumps of the members dict: an object text, one "key": true pair per
\* key, in the dict's insertion order
JsonDumpsMembers(d) == [i \in 1..Len(d) |-> <<d[i], TRUE>>]

RECURSIVE DictFromPairs(_)
\* json.loads of an object text: a dict, keys in order of first appearance
DictFromPairs(p) ==
    IF p = <<>> THEN <<>>
    ELSE LET rest == DictFromPairs(SubSeq(p, 1, Len(p) - 1))
             k == p[Len(p)][1]
         IN IF \E i \in 1..Len(rest) : rest[i] = k THEN rest ELSE Append(rest, k)

JsonLoadsMembers(t) == DictFromPairs(t)

\* json.dumps / json.loads of the message list: an array text whose items are
\* the objects {"name":..,"message":..,"timestamp":..}, order preserved
JsonDumpsMessages(l) ==
    [i \in 1..Len(l) |-> <<"obj", l[i].name, l[i].message, l[i].timestamp>>]

JsonLoadsMessages(t) ==
    [i \in 1..Len(t) |-> [name |-> t[i][2], message |-> t[i][3], timestamp |-> t[i][4]]]

\* ----------------------------------------------------------------- Redis
NoHash == [f \in {} |-> <<>>]

\* redis.exists(f"room:{code}"): a hash key exists iff it has a field
Exists(code) == code \in Codes /\ DOMAIN store[code] # {}

\* redis.hget(key, field) is not None
HasField(code, field) == code \in Codes /\ field \in DOMAIN store[code]

\* the hash replaced by the one field written (a whole-value SET)
HSetWhole(s, code, field, value) ==
    [s EXCEPT ![code] = [f \in {field} |-> value]]

\* redis.hset(key, field, value): creates the key when it is absent
HSet(s, code, field, value) ==
    [s EXCEPT ![code] = [f \in (DOMAIN @) \cup {field} |->
                            IF f = field THEN value ELSE @[f]]]

\* ------------------------------------------------------- records in use
NoBinding == [room |-> None, name |-> None]

NoContent == [name |-> None, message |-> None, timestamp |-> 0]

Locals0 == [room |-> None, name |-> None, members |-> <<>>, messages |-> <<>>,
            content |-> NoContent, id |-> 0, sentTo |-> {}]

NoResp == [status |-> 0, error |-> None, room |-> None, name |-> None, message |-> None]

ErrorResp(text, status) == [NoResp EXCEPT !.status = status, !.error = text]

\* an emitted Socket.IO event; recipients are the connections in the
\* addressed room (to=room) or the one connection addressed (to=request.sid)
Event(event, private, to, recipients, members, messages, content) ==
    [event |-> event, private |-> private, to |-> to, recipients |-> recipients,
     members |-> members, messages |-> messages, content |-> content]

Label(c, act, r, evs) == [by |-> c, act |-> act, resp |-> r, emitted |-> evs]

\* dict keys as a set
Keys(d) == {d[i] : i \in 1..Len(d)}

\* members = {name: True}: the dict is replaced, not updated
DictSetReplace(d, k) == <<k>>

\* members[name] = True on an insertion-ordered dict
DictSet(d, k) == IF k \in Keys(d) THEN d ELSE Append(d, k)

\* members.clear() in place of del members[name]
DictDelAll(d, k) == <<>>

\* del members[name]
DictDel(d, k) == SelectSeq(d, LAMBDA x : x # k)

Bindings == {NoBinding} \cup [room : Codes, name : Names]

\* the decoded fields of a room (an absent field reads as empty)
MembersOf(s, code) ==
    IF "members" \in DOMAIN s[code] THEN JsonLoadsMembers(s[code].members) ELSE <<>>

MessagesOf(s, code) ==
    IF "messages" \in DOMAIN s[code] THEN JsonLoadsMessages(s[code].messages) ELSE <<>>

\* a fresh deployment: Redis and MongoDB are empty, no client has a session
Init ==
    /\ store = [code \in Codes |-> NoHash]
    /\ archive = <<>>
    /\ session = [c \in Clients |-> NoBinding]
    /\ conn = [c \in Clients |-> "closed"]
    /\ groups = [code \in Codes |-> {}]
    /\ pc = [c \in Clients |-> "idle"]
    /\ loc = [c \in Clients |-> Locals0]
    /\ now = 0
    /\ last = Label(0, "Init", NoResp, <<>>)
    /\ nCalls = 0
    /\ returned = {}
    /\ bcast = {}
    /\ shared = FALSE

\* ------------------------------------------------- POST /api/create-room
\* name validation; the call then enters generate_unique_code.  A client
\* sends create-room and join-room while its socket is closed: the connection
\* keeps the session it was opened with, so handlers read session[c].
CreateRoom(c, name) ==
    /\ pc[c] = "idle"
    /\ conn[c] = "closed"
    /\ IF Falsy(name)
       THEN /\ last' = Label(c, "CreateRoom", ErrorResp("Name is required", 404), <<>>)
            /\ UNCHANGED <<pc, loc, nCalls>>
       ELSE /\ nCalls < MaxCreates
            /\ nCalls' = nCalls + 1
            /\ pc' = [pc EXCEPT ![c] = "generate_unique_code"]
            /\ loc' = [loc EXCEPT ![c] = [Locals0 EXCEPT !.name = name, !.id = nCalls + 1]]
            /\ last' = Label(c, "CreateRoom", NoResp, <<>>)
    /\ UNCHANGED <<store, archive, session, conn, groups, now, returned, bcast, shared>>

\* one iteration of the while loop: sample a code, leave the loop when no
\* room has it
GenerateUniqueCode(c, code) ==
    /\ pc[c] = "generate_unique_code"
    /\ IF ~Exists(code)
       THEN /\ pc' = [pc EXCEPT ![c] = "create_hset_members"]
            /\ loc' = [loc EXCEPT ![c].room = code]
       ELSE UNCHANGED <<pc, loc>>
    /\ last' = Label(c, "GenerateUniqueCode", NoResp, <<>>)
    /\ UNCHANGED <<store, archive, session, conn, groups, now, nCalls,
                   returned, bcast, shared>>

CreateHsetMembers(c) ==
    /\ pc[c] = "create_hset_members"
    /\ store' = HSet(store, loc[c].room, "members", JsonDumpsMembers(<<>>))
    /\ pc' = [pc EXCEPT ![c] = "create_hset_messages"]
    /\ last' = Label(c, "CreateHsetMembers", NoResp, <<>>)
    /\ UNCHANGED <<archive, session, conn, groups, loc, now, nCalls,
                   returned, bcast, shared>>

CreateHsetMessages(c) ==
    /\ pc[c] = "create_hset_messages"
    /\ store' = HSet(store, loc[c].room, "messages", JsonDumpsMessages(<<>>))
    /\ session' = [session EXCEPT ![c] = [room |-> loc[c].room, name |-> loc[c].name]]
    /\ last' = Label(c, "CreateHsetMessages",
                     [NoResp EXCEPT !.status = 200, !.room = loc[c].room,
                                    !.name = loc[c].name], <<>>)
    /\ returned' = returned \cup {[id |-> loc[c].id, code |-> loc[c].room]}
    /\ pc' = [pc EXCEPT ![c] = "idle"]
    /\ loc' = [loc EXCEPT ![c] = Locals0]
    /\ UNCHANGED <<archive, conn, groups, now, nCalls, bcast, shared>>

\* --------------------------------------------------- POST /api/join-room
\* join-room without its redis.exists test
JoinRoomApiUnchecked(c, name, code) ==
    /\ pc[c] = "idle"
    /\ conn[c] = "closed"
    /\ code \in Codes
    /\ IF Falsy(name)
       THEN /\ last' = Label(c, "JoinRoomApi", ErrorResp("Name is required", 404), <<>>)
            /\ UNCHANGED session
       ELSE /\ session' = [session EXCEPT ![c] = [room |-> code, name |-> name]]
            /\ last' = Label(c, "JoinRoomApi",
                             [NoResp EXCEPT !.status = 200, !.room = code,
                                            !.name = name], <<>>)
    /\ UNCHANGED <<store, archive, conn, groups, pc, loc, now, nCalls,
                   returned, bcast, shared>>

JoinRoomApi(c, name, code) ==
    /\ pc[c] = "idle"
    /\ conn[c] = "closed"
    /\ IF Falsy(name)
       THEN /\ last' = Label(c, "JoinRoomApi", ErrorResp("Name is required", 404), <<>>)
            /\ UNCHANGED session
       ELSE IF ~Exists(code)
       THEN /\ last' = Label(c, "JoinRoomApi", ErrorResp("Room does not exist", 404), <<>>)
            /\ UNCHANGED session
       ELSE /\ session' = [session EXCEPT ![c] = [room |-> code, name |-> name]]
            /\ last' = Label(c, "JoinRoomApi",
                             [NoResp EXCEPT !.status = 200, !.room = code,
                                            !.name = name], <<>>)
    /\ UNCHANGED <<store, archive, conn, groups, pc, loc, now, nCalls,
                   returned, bcast, shared>>

\* --------------------------------------------------- POST /api/save-chat
InSave(c) == pc[c] = "save_insert"

\* save_chat without its redis.exists test
SaveChatNoExists(c, room) ==
    /\ pc[c] = "idle"
    /\ IF Falsy(room)
       THEN /\ last' = Label(c, "SaveChat", ErrorResp("Room ID is required", 404), <<>>)
            /\ UNCHANGED <<pc, loc>>
       ELSE /\ Len(archive) + Cardinality({d \in Clients : InSave(d)}) < MaxSaves
            /\ pc' = [pc EXCEPT ![c] = "save_insert"]
            /\ loc' = [loc EXCEPT ![c] = [Locals0 EXCEPT !.room = room,
                                              !.messages = MessagesOf(store, room)]]
            /\ last' = Label(c, "SaveChat", NoResp, <<>>)
    /\ UNCHANGED <<store, archive, session, conn, groups, now, nCalls,
                   returned, bcast, shared>>

\* validation, redis.exists and redis.hget(.., "messages") or "[]"
SaveChat(c, room) ==
    /\ pc[c] = "idle"
    /\ IF Falsy(room)
       THEN /\ last' = Label(c, "SaveChat", ErrorResp("Room ID is required", 404), <<>>)
            /\ UNCHANGED <<pc, loc>>
       ELSE IF ~Exists(room)
       THEN /\ last' = Label(c, "SaveChat", ErrorResp("Room does not exist", 404), <<>>)
            /\ UNCHANGED <<pc, loc>>
       ELSE /\ Len(archive) + Cardinality({d \in Clients : InSave(d)}) < MaxSaves
            /\ pc' = [pc EXCEPT ![c] = "save_insert"]
            /\ loc' = [loc EXCEPT ![c] = [Locals0 EXCEPT !.room = room,
                                              !.messages = MessagesOf(store, room)]]
            /\ last' = Label(c, "SaveChat", NoResp, <<>>)
    /\ UNCHANGED <<store, archive, session, conn, groups, now, nCalls,
                   returned, bcast, shared>>

\* replace_one({"room_id": room}, chat_data, upsert=True) in place of insert_one
SaveInsertUpsert(c) ==
    /\ pc[c] = "save_insert"
    /\ LET doc == [room_id |-> loc[c].room, messages |-> loc[c].messages]
       IN archive' = IF \E i \in 1..Len(archive) : archive[i].room_id = loc[c].room
                     THEN [i \in 1..Len(archive) |->
                              IF archive[i].room_id = loc[c].room THEN doc ELSE archive[i]]
                     ELSE Append(archive, doc)
    /\ last' = Label(c, "SaveInsert",
                     [NoResp EXCEPT !.status = 200,
                                    !.message = "Chat saved successfully"], <<>>)
    /\ pc' = [pc EXCEPT ![c] = "idle"]
    /\ loc' = [loc EXCEPT ![c] = Locals0]
    /\ UNCHANGED <<store, session, conn, groups, now, nCalls, returned, bcast, shared>>

\* insert_one followed by a reset of the room's message log
SaveInsertAndClear(c) ==
    /\ pc[c] = "save_insert"
    /\ archive' = Append(archive, [room_id |-> loc[c].room, messages |-> loc[c].messages])
    /\ store' = HSet(store, loc[c].room, "messages", JsonDumpsMessages(<<>>))
    /\ last' = Label(c, "SaveInsert",
                     [NoResp EXCEPT !.status = 200,
                                    !.message = "Chat saved successfully"], <<>>)
    /\ pc' = [pc EXCEPT ![c] = "idle"]
    /\ loc' = [loc EXCEPT ![c] = Locals0]
    /\ UNCHANGED <<session, conn, groups, now, nCalls, returned, bcast, shared>>

\* db.chats.insert_one(chat_data) succeeds
SaveInsert(c) ==
    /\ pc[c] = "save_insert"
    /\ archive' = Append(archive, [room_id |-> loc[c].room, messages |-> loc[c].messages])
    /\ last' = Label(c, "SaveInsert",
                     [NoResp EXCEPT !.status = 200,
                                    !.message = "Chat saved successfully"], <<>>)
    /\ pc' = [pc EXCEPT ![c] = "idle"]
    /\ loc' = [loc EXCEPT ![c] = Locals0]
    /\ UNCHANGED <<store, session, conn, groups, now, nCalls, returned, bcast, shared>>

\* db.chats.insert_one(chat_data) raises: the except branch answers 500
SaveInsertFail(c) ==
    /\ pc[c] = "save_insert"
    /\ last' = Label(c, "SaveInsertFail", ErrorResp("Failed to save chat", 500), <<>>)
    /\ pc' = [pc EXCEPT ![c] = "idle"]
    /\ loc' = [loc EXCEPT ![c] = Locals0]
    /\ UNCHANGED <<store, archive, session, conn, groups, now, nCalls,
                   returned, bcast, shared>>

\* ------------------------------------------------ @socketio.on("message")
InMessage(c) == pc[c] \in {"message_hget", "message_hset"}

Logged == LET n[k \in 0..Len(AllCodes)] ==
                 IF k = 0 THEN 0
                 ELSE n[k - 1] + (IF AllCodes[k] \in Codes
                                  THEN Len(MessagesOf(store, AllCodes[k])) ELSE 0)
          IN n[Len(AllCodes)]

\* send(content, to=room) moved behind the redis.hset of the log
HandleMessageSendLater(c, text, ts) ==
    /\ pc[c] = "idle"
    /\ conn[c] = "open"
    /\ IF ~Exists(session[c].room)
       THEN /\ last' = Label(c, "HandleMessage", NoResp, <<>>)
            /\ UNCHANGED <<pc, loc, now, bcast>>
       ELSE /\ Logged + Cardinality({d \in Clients : InMessage(d)}) < MaxMsgs
            /\ ts >= now
            /\ now' = ts
            /\ LET content == [name |-> session[c].name, message |-> text, timestamp |-> ts]
               IN /\ loc' = [loc EXCEPT ![c] = [Locals0 EXCEPT !.room = session[c].room,
                                                    !.content = content,
                                                    !.sentTo = groups[session[c].room]]]
                  /\ last' = Label(c, "HandleMessage", NoResp,
                                   <<>>)
                  /\ bcast' = bcast
            /\ pc' = [pc EXCEPT ![c] = "message_hget"]
    /\ UNCHANGED <<store, archive, session, conn, groups, nCalls, returned, shared>>

\* the guard, the content and send(content, to=room)
HandleMessage(c, text, ts) ==
    /\ pc[c] = "idle"
    /\ conn[c] = "open"
    /\ IF ~Exists(session[c].room)
       THEN /\ last' = Label(c, "HandleMessage", NoResp, <<>>)
            /\ UNCHANGED <<pc, loc, now, bcast>>
       ELSE /\ Logged + Cardinality({d \in Clients : InMessage(d)}) < MaxMsgs
            /\ ts >= now
            /\ now' = ts
            /\ LET content == [name |-> session[c].name, message |-> text, timestamp |-> ts]
               IN /\ loc' = [loc EXCEPT ![c] = [Locals0 EXCEPT !.room = session[c].room,
                                                    !.content = content,
                                                    !.sentTo = groups[session[c].room]]]
                  /\ last' = Label(c, "HandleMessage", NoResp,
                                   <<Event("message", FALSE, session[c].room,
                                           groups[session[c].room], <<>>, <<>>, content)>>)
                  /\ bcast' = bcast \cup {[room |-> session[c].room, content |-> content]}
                  /\ Cardinality(bcast') <= MaxMsgs
            /\ pc' = [pc EXCEPT ![c] = "message_hget"]
    /\ UNCHANGED <<store, archive, session, conn, groups, nCalls, returned, shared>>

\* messages.insert(0, content) in place of messages.append(content)
MessageHgetPrepend(c) ==
    /\ pc[c] = "message_hget"
    /\ IF HasField(loc[c].room, "messages")
       THEN /\ loc' = [loc EXCEPT ![c].messages =
                          <<loc[c].content>> \o
                             JsonLoadsMessages(store[loc[c].room].messages)]
            /\ pc' = [pc EXCEPT ![c] = "message_hset"]
       ELSE /\ loc' = [loc EXCEPT ![c] = Locals0]
            /\ pc' = [pc EXCEPT ![c] = "idle"]
    /\ last' = Label(c, "MessageHget", NoResp, <<>>)
    /\ UNCHANGED <<store, archive, session, conn, groups, now, nCalls,
                   returned, bcast, shared>>

\* messages = json.loads(redis.hget(..)); messages.append(content)
\* (json.loads(None) raises TypeError and ends the handler)
MessageHget(c) ==
    /\ pc[c] = "message_hget"
    /\ IF HasField(loc[c].room, "messages")
       THEN /\ loc' = [loc EXCEPT ![c].messages =
                          Append(JsonLoadsMessages(store[loc[c].room].messages),
                                 loc[c].content)]
            /\ pc' = [pc EXCEPT ![c] = "message_hset"]
       ELSE /\ loc' = [loc EXCEPT ![c] = Locals0]
            /\ pc' = [pc EXCEPT ![c] = "idle"]
    /\ last' = Label(c, "MessageHget", NoResp, <<>>)
    /\ UNCHANGED <<store, archive, session, conn, groups, now, nCalls,
                   returned, bcast, shared>>

MessageHset(c) ==
    /\ pc[c] = "message_hset"
    /\ store' = HSet(store, loc[c].room, "messages", JsonDumpsMessages(loc[c].messages))
    /\ pc' = [pc EXCEPT ![c] = "idle"]
    /\ loc' = [loc EXCEPT ![c] = Locals0]
    /\ last' = Label(c, "MessageHset", NoResp, <<>>)
    /\ UNCHANGED <<archive, session, conn, groups, now, nCalls, returned, bcast, shared>>

\* redis.hset raises (the store is unreachable): the handler ends, the log is
\* not written
MessageHsetFail(c) ==
    /\ pc[c] = "message_hset"
    /\ pc' = [pc EXCEPT ![c] = "idle"]
    /\ loc' = [loc EXCEPT ![c] = Locals0]
    /\ last' = Label(c, "MessageHsetFail", NoResp, <<>>)
    /\ UNCHANGED <<store, archive, session, conn, groups, now, nCalls,
                   returned, bcast, shared>>

\* ------------------------------------------------ @socketio.on("connect")
\* handle_connect without its redis.exists guard
HandleConnectNoExists(c) ==
    /\ pc[c] = "idle"
    /\ conn[c] = "closed"
    /\ conn' = [conn EXCEPT ![c] = "open"]
    /\ IF Falsy(session[c].room) \/ Falsy(session[c].name)
       THEN UNCHANGED <<pc, loc, groups, shared>>
       ELSE /\ groups' = [groups EXCEPT ![session[c].room] = @ \cup {c}]
            /\ loc' = [loc EXCEPT ![c] = [Locals0 EXCEPT !.room = session[c].room,
                                              !.name = session[c].name]]
            /\ pc' = [pc EXCEPT ![c] = "connect_hget_members"]
            /\ shared' = (shared \/ \E d \in groups[session[c].room] \ {c} :
                                        session[d].name = session[c].name)
    /\ last' = Label(c, "HandleConnect", NoResp, <<>>)
    /\ UNCHANGED <<store, archive, session, now, nCalls, returned, bcast>>

\* the connection opens; the guards and join_room(room)
HandleConnect(c) ==
    /\ pc[c] = "idle"
    /\ conn[c] = "closed"
    /\ conn' = [conn EXCEPT ![c] = "open"]
    /\ IF Falsy(session[c].room) \/ Falsy(session[c].name) \/ ~Exists(session[c].room)
       THEN UNCHANGED <<pc, loc, groups, shared>>
       ELSE /\ groups' = [groups EXCEPT ![session[c].room] = @ \cup {c}]
            /\ loc' = [loc EXCEPT ![c] = [Locals0 EXCEPT !.room = session[c].room,
                                              !.name = session[c].name]]
            /\ pc' = [pc EXCEPT ![c] = "connect_hget_members"]
            /\ shared' = (shared \/ \E d \in groups[session[c].room] \ {c} :
                                        session[d].name = session[c].name)
    /\ last' = Label(c, "HandleConnect", NoResp, <<>>)
    /\ UNCHANGED <<store, archive, session, now, nCalls, returned, bcast>>

\* members = json.loads(redis.hget(..)); members[name] = True
ConnectHgetMembers(c) ==
    /\ pc[c] = "connect_hget_members"
    /\ IF HasField(loc[c].room, "members")
       THEN /\ loc' = [loc EXCEPT ![c].members =
                          DictSet(JsonLoadsMembers(store[loc[c].room].members),
                                  loc[c].name)]
            /\ pc' = [pc EXCEPT ![c] = "connect_hset_members"]
       ELSE /\ loc' = [loc EXCEPT ![c] = Locals0]
            /\ pc' = [pc EXCEPT ![c] = "idle"]
    /\ last' = Label(c, "ConnectHgetMembers", NoResp, <<>>)
    /\ UNCHANGED <<store, archive, session, conn, groups, now, nCalls,
                   returned, bcast, shared>>

\* the name added to the stored dict in one atomic step (no write-back of
\* the dict read earlier)
ConnectHsetMembersMerge(c) ==
    /\ pc[c] = "connect_hset_members"
    /\ store' = HSet(store, loc[c].room, "members",
                     JsonDumpsMembers(DictSet(MembersOf(store, loc[c].room), loc[c].name)))
    /\ pc' = [pc EXCEPT ![c] = "connect_send_members"]
    /\ last' = Label(c, "ConnectHsetMembers", NoResp, <<>>)
    /\ UNCHANGED <<archive, session, conn, groups, loc, now, nCalls,
                   returned, bcast, shared>>

\* redis.hset(.., "members", json.dumps(members)) of handle_connect
ConnectHsetMembers(c) ==
    /\ pc[c] = "connect_hset_members"
    /\ store' = HSet(store, loc[c].room, "members", JsonDumpsMembers(loc[c].members))
    /\ pc' = [pc EXCEPT ![c] = "connect_send_members"]
    /\ last' = Label(c, "ConnectHsetMembers", NoResp, <<>>)
    /\ UNCHANGED <<archive, session, conn, groups, loc, now, nCalls,
                   returned, bcast, shared>>

\* the broadcast list read from Redis again in place of the local dict
ConnectSendMembersReread(c) ==
    /\ pc[c] = "connect_send_members"
    /\ last' = Label(c, "ConnectSendMembers", NoResp,
                     <<Event("message", TRUE, loc[c].room, {c},
                             loc[c].members, <<>>, NoContent),
                       Event("members", FALSE, loc[c].room, groups[loc[c].room],
                             MembersOf(store, loc[c].room), <<>>, NoContent)>>)
    /\ pc' = [pc EXCEPT ![c] = "connect_previous_messages"]
    /\ UNCHANGED <<store, archive, session, conn, groups, loc, now, nCalls,
                   returned, bcast, shared>>

\* send({"members": ..}, to=request.sid) and
\* socketio.emit('members', {"members": ..}, to=room)
ConnectSendMembers(c) ==
    /\ pc[c] = "connect_send_members"
    /\ last' = Label(c, "ConnectSendMembers", NoResp,
                     <<Event("message", TRUE, loc[c].room, {c},
                             loc[c].members, <<>>, NoContent),
                       Event("members", FALSE, loc[c].room, groups[loc[c].room],
                             loc[c].members, <<>>, NoContent)>>)
    /\ pc' = [pc EXCEPT ![c] = "connect_previous_messages"]
    /\ UNCHANGED <<store, archive, session, conn, groups, loc, now, nCalls,
                   returned, bcast, shared>>

\* previous_messages = json.loads(redis.hget(..)) and
\* socketio.emit('previous-messages', .., to=request.sid)
ConnectPreviousMessages(c) ==
    /\ pc[c] = "connect_previous_messages"
    /\ IF HasField(loc[c].room, "messages")
       THEN last' = Label(c, "ConnectPreviousMessages", NoResp,
                          <<Event("previous-messages", TRUE, loc[c].room, {c}, <<>>,
                                  JsonLoadsMessages(store[loc[c].room].messages),
                                  NoContent)>>)
       ELSE last' = Label(c, "ConnectPreviousMessages", NoResp, <<>>)
    /\ pc' = [pc EXCEPT ![c] = "idle"]
    /\ loc' = [loc EXCEPT ![c] = Locals0]
    /\ UNCHANGED <<store, archive, session, conn, groups, now, nCalls,
                   returned, bcast, shared>>

\* --------------------------------------------- @socketio.on("disconnect")
\* the handler has returned: the connection is gone and the transport takes
\* it out of every room
Closed(c) ==
    /\ conn' = [conn EXCEPT ![c] = "closed"]
    /\ groups' = [code \in Codes |-> groups[code] \ {c}]
    /\ pc' = [pc EXCEPT ![c] = "idle"]
    /\ loc' = [loc EXCEPT ![c] = Locals0]

\* handle_disconnect without the test name in members (members.pop(name, None))
HandleDisconnectAlways(c) ==
    /\ pc[c] = "idle"
    /\ conn[c] = "open"
    /\ IF /\ ~Falsy(session[c].room)
          /\ ~Falsy(session[c].name)
          /\ Exists(session[c].room)
          /\ HasField(session[c].room, "members")
       THEN /\ loc' = [loc EXCEPT ![c] =
                          [Locals0 EXCEPT !.room = session[c].room, !.name = session[c].name,
                              !.members = DictDel(JsonLoadsMembers(store[session[c].room].members),
                                                  session[c].name)]]
            /\ pc' = [pc EXCEPT ![c] = "disconnect_hset_members"]
            /\ UNCHANGED <<conn, groups>>
       ELSE Closed(c)
    /\ last' = Label(c, "HandleDisconnect", NoResp, <<>>)
    /\ UNCHANGED <<store, archive, session, now, nCalls, returned, bcast, shared>>

\* the guards, members = json.loads(redis.hget(..)) and the test name in members
HandleDisconnect(c) ==
    /\ pc[c] = "idle"
    /\ conn[c] = "open"
    /\ IF /\ ~Falsy(session[c].room)
          /\ ~Falsy(session[c].name)
          /\ Exists(session[c].room)
          /\ HasField(session[c].room, "members")
          /\ session[c].name \in Keys(JsonLoadsMembers(store[session[c].room].members))
       THEN /\ loc' = [loc EXCEPT ![c] =
                          [Locals0 EXCEPT !.room = session[c].room, !.name = session[c].name,
                              !.members = DictDel(JsonLoadsMembers(store[session[c].room].members),
                                                  session[c].name)]]
            /\ pc' = [pc EXCEPT ![c] = "disconnect_hset_members"]
            /\ UNCHANGED <<conn, groups>>
       ELSE Closed(c)
    /\ last' = Label(c, "HandleDisconnect", NoResp, <<>>)
    /\ UNCHANGED <<store, archive, session, now, nCalls, returned, bcast, shared>>

\* handle_disconnect without its redis.hset
DisconnectHsetMembersSkip(c) ==
    /\ pc[c] = "disconnect_hset_members"
    /\ store' = store
    /\ pc' = [pc EXCEPT ![c] = "disconnect_emit_members"]
    /\ last' = Label(c, "DisconnectHsetMembers", NoResp, <<>>)
    /\ UNCHANGED <<archive, session, conn, groups, loc, now, nCalls,
                   returned, bcast, shared>>

\* redis.hset(.., "members", json.dumps(members)) of handle_disconnect
DisconnectHsetMembers(c) ==
    /\ pc[c] = "disconnect_hset_members"
    /\ store' = HSet(store, loc[c].room, "members", JsonDumpsMembers(loc[c].members))
    /\ pc' = [pc EXCEPT ![c] = "disconnect_emit_members"]
    /\ last' = Label(c, "DisconnectHsetMembers", NoResp, <<>>)
    /\ UNCHANGED <<archive, session, conn, groups, loc, now, nCalls,
                   returned, bcast, shared>>

\* socketio.emit('members', ..) without to=room: sent to every connection
DisconnectEmitMembersToAll(c) ==
    /\ pc[c] = "disconnect_emit_members"
    /\ last' = Label(c, "DisconnectEmitMembers", NoResp,
                     <<Event("members", FALSE, loc[c].room,
                             UNION {groups[code] : code \in Codes},
                             loc[c].members, <<>>, NoContent)>>)
    /\ Closed(c)
    /\ UNCHANGED <<store, archive, session, now, nCalls, returned, bcast, shared>>

\* socketio.emit('members', {"members": ..}, to=room); the handler returns
DisconnectEmitMembers(c) ==
    /\ pc[c] = "disconnect_emit_members"
    /\ last' = Label(c, "DisconnectEmitMembers", NoResp,
                     <<Event("members", FALSE, loc[c].room, groups[loc[c].room],
                             loc[c].members, <<>>, NoContent)>>)
    /\ Closed(c)
    /\ UNCHANGED <<store, archive, session, now, nCalls, returned, bcast, shared>>

\* ---------------------------------------------------------- the program
CreateStep(c) ==
    \/ \E name \in NameInputs : CreateRoom(c, name)
    \/ \E code \in Codes : GenerateUniqueCode(c, code)
    \/ CreateHsetMembers(c)
    \/ CreateHsetMessages(c)

JoinStep(c) == \E name \in NameInputs, code \in CodeInputs : JoinRoomApi(c, name, code)

SaveStep(c) ==
    \/ \E room \in CodeInputs : SaveChat(c, room)
    \/ SaveInsert(c)
    \/ SaveInsertFail(c)

MessageStep(c) ==
    \/ \E text \in Texts, ts \in 0..MaxTime : HandleMessage(c, text, ts)
    \/ MessageHget(c)
    \/ MessageHset(c)

ConnectStep(c) ==
    \/ HandleConnect(c)
    \/ ConnectHgetMembers(c)
    \/ ConnectHsetMembers(c)
    \/ ConnectSendMembers(c)
    \/ ConnectPreviousMessages(c)

DisconnectStep(c) ==
    \/ HandleDisconnect(c)
    \/ DisconnectHsetMembers(c)
    \/ DisconnectEmitMembers(c)

Step(c) ==
    \/ CreateStep(c)
    \/ JoinStep(c)
    \/ SaveStep(c)
    \/ MessageStep(c)
    \/ ConnectStep(c)
    \/ DisconnectStep(c)

\* the whole program: the handlers of different clients interleave at every
\* call to a shared service
Next == \E c \in Clients : Step(c)

Spec == Init /\ [][Next]_vars

\* the room directory: create-room and join-room requests interleaved with
\* connections opening
NextRooms == \E c \in Clients : CreateStep(c) \/ JoinStep(c) \/ ConnectStep(c)

SpecRooms == Init /\ [][NextRooms]_vars

\* rooms and presence with the handlers run one at a time: a client steps only
\* while no other client is inside a handler
Alone(c) == \A d \in Clients \ {c} : pc[d] = "idle"

NextSeq ==
    \E c \in Clients :
        \/ Alone(c) /\ \E name \in NameInputs : CreateRoom(c, name)
        \/ Alone(c) /\ \E code \in Codes : GenerateUniqueCode(c, code)
        \/ Alone(c) /\ CreateHsetMembers(c)
        \/ Alone(c) /\ CreateHsetMessages(c)
        \/ Alone(c) /\ \E name \in NameInputs, code \in CodeInputs : JoinRoomApi(c, name, code)
        \/ Alone(c) /\ \E text \in Texts, ts \in 0..MaxTime : HandleMessage(c, text, ts)
        \/ Alone(c) /\ MessageHget(c)
        \/ Alone(c) /\ MessageHset(c)
        \/ Alone(c) /\ HandleConnect(c)
        \/ Alone(c) /\ ConnectHgetMembers(c)
        \/ Alone(c) /\ ConnectHsetMembers(c)
        \/ Alone(c) /\ ConnectSendMembers(c)
        \/ Alone(c) /\ ConnectPreviousMessages(c)
        \/ Alone(c) /\ HandleDisconnect(c)
        \/ Alone(c) /\ DisconnectHsetMembers(c)
        \/ Alone(c) /\ DisconnectEmitMembers(c)

SpecSeq == Init /\ [][NextSeq]_vars

\* the real-time path on rooms that were created before (some of the codes
\* are allocated, every client holds a session cookie or none)
InitChat ==
    /\ \E allocated \in (SUBSET Codes) \ {{}} :
          store = [code \in Codes |->
                      IF code \in allocated
                      THEN [members |-> JsonDumpsMembers(<<>>),
                            messages |-> JsonDumpsMessages(<<>>)]
                      ELSE NoHash]
    /\ archive = <<>>
    /\ session \in [Clients -> Bindings]
    /\ conn = [c \in Clients |-> "closed"]
    /\ groups = [code \in Codes |-> {}]
    /\ pc = [c \in Clients |-> "idle"]
    /\ loc = [c \in Clients |-> Locals0]
    /\ now = 0
    /\ last = Label(0, "Init", NoResp, <<>>)
    /\ nCalls = 0
    /\ returned = {}
    /\ bcast = {}
    /\ shared = FALSE

\* connect, message and disconnect handlers interleaved
NextChat == \E c \in Clients : ConnectStep(c) \/ MessageStep(c) \/ DisconnectStep(c)

SpecChat == InitChat /\ [][NextChat]_vars

\* the same, with a store that can refuse the write of the log
NextChatFaulty ==
    \/ NextChat
    \/ \E c \in Clients : MessageHsetFail(c)

SpecChatFaulty == InitChat /\ [][NextChatFaulty]_vars

\* connect and message handlers interleaved with save-chat requests
NextArchive == \E c \in Clients : ConnectStep(c) \/ MessageStep(c) \/ SaveStep(c)

SpecArchive == InitChat /\ [][NextArchive]_vars

\* ================================================================ claims

\* C1: no two create-room calls ever return the same code, whatever the
\* interleaving of concurrent calls; a call never returns a code that another
\* call has allocated.
C1_ReturnedCodesUnique ==
    \A r1 \in returned, r2 \in returned : r1.id # r2.id => r1.code # r2.code

\* C2: at the step where create-room answers 200 with code C, room C has
\* both fields, members is the empty mapping, messages the empty sequence,
\* and the caller's session is (C, name).
C2_CreatedRoomEmptyOnReturn ==
    [][\A c \in Clients :
          CreateHsetMessages(c) =>
             /\ last'.resp.status = 200
             /\ last'.resp.room = loc[c].room
             /\ DOMAIN store'[loc[c].room] = {"members", "messages"}
             /\ MembersOf(store', loc[c].room) = <<>>
             /\ MessagesOf(store', loc[c].room) = <<>>
             /\ session'[c] = [room |-> loc[c].room, name |-> loc[c].name]]_vars

\* C3 (as amended): join-room with a code that names no room answers
\* "Room does not exist" for every non-empty name and "Name is required" for
\* an empty or missing name; either way session and store are unchanged.
C3_JoinUnknownRoomRejected ==
    [][\A c \in Clients, name \in NameInputs, code \in CodeInputs :
          (JoinRoomApi(c, name, code) /\ ~Exists(code)) =>
             /\ last'.resp.status = 404
             /\ last'.resp.error = IF Falsy(name) THEN "Name is required"
                                                  ELSE "Room does not exist"
             /\ UNCHANGED <<session, store>>]_vars

\* C3 as stated: join-room with a code that names no room answers
\* "Room does not exist" for every name, the empty and the missing one
\* included, and leaves session and store unchanged.
C3_JoinUnknownRoomAlwaysNotFound ==
    [][\A c \in Clients, name \in NameInputs, code \in CodeInputs :
          (JoinRoomApi(c, name, code) /\ ~Exists(code)) =>
             /\ last'.resp.error = "Room does not exist"
             /\ UNCHANGED <<session, store>>]_vars

\* a join-room for an unallocated code has just been refused while another
\* room exists
C3_Witness ==
    /\ last.act = "JoinRoomApi"
    /\ last.resp.error = "Room does not exist"
    /\ \E code \in Codes : Exists(code)
    /\ \E code \in Codes : ~Exists(code)

\* C9: a room for which redis.exists is true has both its members and its
\* messages field.
C9_NoPartialRoom ==
    \A code \in Codes : Exists(code) => DOMAIN store[code] = {"members", "messages"}

\* C4: with no other handler interleaved, a connect under binding (R, n) on
\* a room whose members are M writes M united with {n} to the store, and the
\* list sent to the connection alone and the list broadcast to R both equal
\* the stored members; for M empty the list is <<n>>.
C4_ConnectMemberLists ==
    [][\A c \in Clients :
          LET R == loc[c].room
              n == loc[c].name
          IN /\ ConnectHgetMembers(c) => pc'[c] = "connect_hset_members"
             /\ ConnectHsetMembers(c) =>
                   /\ Keys(MembersOf(store', R)) = Keys(MembersOf(store, R)) \cup {n}
                   /\ MembersOf(store, R) = <<>> => MembersOf(store', R) = <<n>>
             /\ ConnectSendMembers(c) =>
                   /\ Len(last'.emitted) = 2
                   /\ last'.emitted[1].private /\ last'.emitted[1].recipients = {c}
                   /\ ~last'.emitted[2].private /\ last'.emitted[2].to = R
                   /\ last'.emitted[2].event = "members"
                   /\ last'.emitted[1].members = last'.emitted[2].members
                   /\ last'.emitted[1].members = MembersOf(store, R)
                   /\ n \in Keys(last'.emitted[1].members)]_vars

\* a connect has just sent a member list of two names
C4_Witness ==
    /\ last.act = "ConnectSendMembers"
    /\ Len(last.emitted) = 2
    /\ Len(last.emitted[1].members) = 2

\* C5: with no other handler interleaved, a disconnect under binding (R, n)
\* with n among R's members M removes n from the stored members, keeps every
\* other name, and broadcasts exactly one members event to R, carrying M
\* without n.
C5_DisconnectRemovesAndBroadcasts ==
    [][\A c \in Clients :
          /\ (/\ HandleDisconnect(c)
              /\ Exists(session[c].room)
              /\ session[c].name \in Keys(MembersOf(store, session[c].room)))
                 => /\ pc'[c] = "disconnect_hset_members"
                    /\ last'.emitted = <<>>
                    /\ store' = store
          /\ DisconnectHsetMembers(c) =>
                /\ loc[c].name \in Keys(MembersOf(store, loc[c].room))
                /\ Keys(MembersOf(store', loc[c].room))
                      = Keys(MembersOf(store, loc[c].room)) \ {loc[c].name}
                /\ last'.emitted = <<>>
          /\ DisconnectEmitMembers(c) =>
                /\ Len(last'.emitted) = 1
                /\ last'.emitted[1].event = "members"
                /\ ~last'.emitted[1].private
                /\ last'.emitted[1].to = loc[c].room
                /\ last'.emitted[1].members = MembersOf(store, loc[c].room)
                /\ loc[c].name \notin Keys(last'.emitted[1].members)
                /\ store' = store]_vars

\* alice has just disconnected from a room that held alice and bob: the
\* broadcast carries <<"bob">>
C5_Witness ==
    /\ last.act = "DisconnectEmitMembers"
    /\ Len(last.emitted) = 1
    /\ last.emitted[1].members = <<"bob">>

\* C6: with no other handler interleaved, a message event with text t under
\* binding (R, n) on an existing room broadcasts exactly one message
\* {name: n, message: t, timestamp} to R's delivery group and leaves the log
\* equal to the previous log with that same content appended at the end.
C6_MessageBroadcastAndAppended ==
    [][\A c \in Clients :
          /\ \A text \in Texts, ts \in 0..MaxTime :
                (HandleMessage(c, text, ts) /\ Exists(session[c].room)) =>
                   LET content == [name |-> session[c].name, message |-> text,
                                   timestamp |-> ts]
                   IN /\ last'.emitted =
                            <<Event("message", FALSE, session[c].room,
                                    groups[session[c].room], <<>>, <<>>, content)>>
                      /\ loc'[c].content = content
                      /\ store' = store
          /\ MessageHget(c) =>
                /\ pc'[c] = "message_hset"
                /\ loc'[c].content = loc[c].content
                /\ last'.emitted = <<>>
                /\ store' = store
          /\ MessageHset(c) =>
                /\ MessagesOf(store', loc[c].room)
                      = Append(MessagesOf(store, loc[c].room), loc[c].content)
                /\ last'.emitted = <<>>]_vars

\* a second message has just been appended to a log
C6_Witness ==
    /\ last.act = "MessageHset"
    /\ \E code \in Codes : Len(MessagesOf(store, code)) = 2

\* C7: save-chat inserts exactly one document {room_id, messages}; its
\* messages are the room's log as save-chat read it, in append order; the
\* documents inserted before stay as they were, and nothing else changes the
\* archive.
C7_SaveInsertsOneSnapshot ==
    [][/\ \A c \in Clients :
             /\ \A room \in Codes :
                   (SaveChat(c, room) /\ Exists(room)) =>
                       /\ loc'[c].room = room
                       /\ loc'[c].messages = MessagesOf(store, room)
                       /\ archive' = archive
             /\ SaveInsert(c) =>
                   /\ last'.resp.status = 200
                   /\ archive' = Append(archive, [room_id |-> loc[c].room,
                                                  messages |-> loc[c].messages])
       /\ archive' # archive => \E c \in Clients : SaveInsert(c)]_vars

\* two documents of one room: the first holds one message, the second two
C7_Witness ==
    /\ Len(archive) = 2
    /\ archive[1].room_id = archive[2].room_id
    /\ Len(archive[1].messages) = 1
    /\ Len(archive[2].messages) = 2
    /\ archive[2].messages[1] = archive[1].messages[1]

\* C8: a connect, message or disconnect event whose session has no room or
\* no name, or names a room that does not exist, emits nothing, joins no
\* delivery group and leaves the store as it was.
C8_UnboundEventIsNoOp ==
    [][\A c \in Clients :
          (\/ Falsy(session[c].room)
           \/ Falsy(session[c].name)
           \/ ~Exists(session[c].room)) =>
             ((\/ HandleConnect(c)
               \/ HandleDisconnect(c)
               \/ \E text \in Texts, ts \in 0..MaxTime : HandleMessage(c, text, ts))
                 => /\ last'.emitted = <<>>
                    /\ groups' = groups
                    /\ store' = store
                    /\ pc'[c] = "idle")]_vars

\* a message event has just been ignored on a connection whose session names
\* a room that was never allocated, while some room holds a member
C8_Witness ==
    /\ last.act = "HandleMessage"
    /\ last.emitted = <<>>
    /\ conn[last.by] = "open"
    /\ session[last.by].room \in Codes
    /\ ~Exists(session[last.by].room)
    /\ \E code \in Codes : MembersOf(store, code) # <<>>

\* C10: no step of save-chat, successful or failed, changes the store: every
\* room keeps its members and messages and stays allocated.
C10_SaveLeavesRoomsUnchanged ==
    [][\A c \in Clients :
          (\/ \E room \in CodeInputs : SaveChat(c, room)
           \/ SaveInsert(c)
           \/ SaveInsertFail(c)) => store' = store /\ groups' = groups]_vars

\* a save-chat has just failed after an earlier one succeeded, on a room with
\* a member and a message
C10_Witness ==
    /\ last.act = "SaveInsertFail"
    /\ last.resp.status = 500
    /\ Len(archive) = 1
    /\ MessagesOf(store, archive[1].room_id) # <<>>
    /\ MembersOf(store, archive[1].room_id) # <<>>

\* C11: in every interleaving, the member list a connect delivers privately to
\* the connecting client and the list it broadcasts to the room are the same
\* list, and that list contains the connecting client's name.
C11_ConnectListsIdentical ==
    last.act = "ConnectSendMembers" =>
        /\ Len(last.emitted) = 2
        /\ last.emitted[1].private /\ last.emitted[1].recipients = {last.by}
        /\ ~last.emitted[2].private /\ last.emitted[2].event = "members"
        /\ last.emitted[1].members = last.emitted[2].members
        /\ session[last.by].name \in Keys(last.emitted[1].members)

\* a connect whose lists differ from the stored list: another handler wrote
\* the members field between this connect's write and its two deliveries
C11_Witness ==
    /\ last.act = "ConnectSendMembers"
    /\ last.emitted[1].members # MembersOf(store, last.emitted[1].to)
    /\ last.emitted[2].recipients # {last.by}

\* C12: the message log of a room is append-only in every interleaving: each
\* step leaves the log it found as a prefix of the log it leaves, so no entry
\* is ever removed, replaced or reordered.
C12_LogAppendOnly ==
    [][\A code \in Codes :
          /\ Len(MessagesOf(store, code)) <= Len(MessagesOf(store', code))
          /\ SubSeq(MessagesOf(store', code), 1, Len(MessagesOf(store, code)))
                 = MessagesOf(store, code)]_vars

\* C13: handle_message broadcasts before it writes the log: every entry of a
\* room's log has been broadcast to that room before, in every interleaving
\* and whether or not writes of the log fail.
C13_LoggedWasBroadcast ==
    \A code \in Codes :
        \A i \in 1..Len(MessagesOf(store, code)) :
            [room |-> code, content |-> MessagesOf(store, code)[i]] \in bcast

\* the converse state is reachable: a message was broadcast to connected
\* clients, its handler has ended on a failed write, and the log lacks it
C13_Witness ==
    /\ last.act = "MessageHsetFail"
    /\ \A c \in Clients : pc[c] = "idle"
    /\ \E b \in bcast :
          \A i \in 1..Len(MessagesOf(store, b.room)) :
              MessagesOf(store, b.room)[i] # b.content
    /\ \E code \in Codes : MessagesOf(store, code) # <<>>

\* C14: a message append and a presence update on the same room do not
\* conflict, in every interleaving: the write of the log puts the message at
\* the end of the log and leaves every members field as it is, and the write
\* of a connect or disconnect stores that handler's member list and leaves
\* every log as it is.
C14_AppendAndPresenceIndependent ==
    [][\A c \in Clients :
          /\ MessageHset(c) =>
                /\ \A code \in Codes :
                      /\ HasField(code, "members") <=> "members" \in DOMAIN store'[code]
                      /\ MembersOf(store', code) = MembersOf(store, code)
                /\ MessagesOf(store', loc[c].room) # <<>>
                /\ MessagesOf(store', loc[c].room)[Len(MessagesOf(store', loc[c].room))]
                       = loc[c].content
          /\ (ConnectHsetMembers(c) \/ DisconnectHsetMembers(c)) =>
                /\ \A code \in Codes :
                      /\ HasField(code, "messages") <=> "messages" \in DOMAIN store'[code]
                      /\ MessagesOf(store', code) = MessagesOf(store, code)
                /\ MembersOf(store', loc[c].room) = loc[c].members]_vars

\* a message handler has written the log while a connect to the same room is
\* between its write of members and its end: the store holds both effects
C14_Witness ==
    /\ last.act = "MessageHset"
    /\ \E d \in Clients \ {last.by} :
          /\ pc[d] = "connect_send_members"
          /\ loc[d].room = session[last.by].room
          /\ MembersOf(store, loc[d].room) = loc[d].members
          /\ Len(loc[d].members) = 2
    /\ MessagesOf(store, session[last.by].room) # <<>>

\* C15: a presence handler writes back the member list it computed from its
\* own earlier read, whatever other handlers wrote since: when another
\* handler's write fell between its read and its write, that write is
\* overwritten.  Two concurrent presence handlers of one room can therefore
\* lose an update.
C15_WriteBackOverwrites ==
    [][\A c \in Clients :
          (ConnectHsetMembers(c) \/ DisconnectHsetMembers(c)) =>
              /\ MembersOf(store', loc[c].room) = loc[c].members
              /\ \A n \in Keys(MembersOf(store, loc[c].room)) \ Keys(loc[c].members) :
                    n \notin Keys(MembersOf(store', loc[c].room))]_vars

\* the lost update: two clients with distinct names connected to one room and
\* both disconnected, every handler has ended, and a name is still a member
C15_Witness ==
    /\ last.act = "DisconnectEmitMembers"
    /\ \A c \in Clients : pc[c] = "idle" /\ conn[c] = "closed"
    /\ \A c, d \in Clients : c # d =>
          session[c].room = session[d].room /\ session[c].name # session[d].name
    /\ ~shared
    /\ MembersOf(store, session[last.by].room) # <<>>

\* C16: a disconnect whose binding (R, n) is valid, R existing, while n is not
\* a key of R's members ends at once: it writes nothing to the store and
\* emits no members broadcast, so the members set stays as it was.
C16_DisconnectOfNonMemberIsNoOp ==
    [][\A c \in Clients :
          (/\ HandleDisconnect(c)
           /\ ~Falsy(session[c].room) /\ ~Falsy(session[c].name)
           /\ Exists(session[c].room)
           /\ session[c].name \notin Keys(MembersOf(store, session[c].room)))
          => /\ store' = store
             /\ last'.emitted = <<>>
             /\ pc'[c] = "idle"
             /\ conn'[c] = "closed"]_vars

\* such a disconnect has run on a room that has another member
C16_Witness ==
    /\ last.act = "HandleDisconnect"
    /\ conn[last.by] = "closed"
    /\ pc[last.by] = "idle"
    /\ Exists(session[last.by].room)
    /\ session[last.by].name \notin Keys(MembersOf(store, session[last.by].room))
    /\ MembersOf(store, session[last.by].room) # <<>>

\* C17: a save-chat that names no room, or a room that does not exist, is
\* answered at once with "Room ID is required", respectively "Room does not
\* exist", and writes no archive record; a save-chat that fails at the insert
\* leaves the archive as it was, too.
C17_FailedSaveWritesNothing ==
    [][\A c \in Clients :
          /\ \A room \in CodeInputs :
                (SaveChat(c, room) /\ ~Exists(room)) =>
                    /\ last'.resp = ErrorResp(IF Falsy(room) THEN "Room ID is required"
                                                             ELSE "Room does not exist", 404)
                    /\ pc'[c] = "idle"
                    /\ archive' = archive
          /\ SaveInsertFail(c) => archive' = archive]_vars

\* a save-chat of a room that does not exist has been refused while the
\* archive holds a record of another room
C17_Witness ==
    /\ last.act = "SaveChat"
    /\ last.resp.error = "Room does not exist"
    /\ Len(archive) = 1
    /\ \E code \in Codes : ~Exists(code)

\* C18: a client that connects to a room while messages are being sent misses
\* none of them: when it receives previous-messages, every message whose
\* handler has broadcast it and not yet ended either was broadcast to this
\* client (it had joined the group) or is an entry of the list it receives.
C18_ConnectingClientMissesNothing ==
    (last.act = "ConnectPreviousMessages" /\ last.emitted # <<>>) =>
        \A d \in Clients :
            (InMessage(d) /\ loc[d].room = last.emitted[1].to) =>
                \/ last.by \in loc[d].sentTo
                \/ \E i \in 1..Len(last.emitted[1].messages) :
                      last.emitted[1].messages[i] = loc[d].content

\* C19: rooms are isolated.  A step of a connect, message or disconnect
\* handler bound to room R leaves the hash of every other room as it is, and
\* every event it emits is addressed to R and received only by connections
\* in R's group: a connection that joined only another room's group never
\* receives it.
C19_RoomsIsolated ==
    [][\A c \in Clients :
          (ConnectStep(c) \/ MessageStep(c) \/ DisconnectStep(c)) =>
              LET R == IF pc[c] = "idle" THEN session[c].room ELSE loc[c].room
              IN /\ \A code \in Codes \ {R} : store'[code] = store[code]
                 /\ \A i \in 1..Len(last'.emitted) :
                       /\ last'.emitted[i].to = R
                       /\ last'.emitted[i].recipients \subseteq groups'[R] \cup groups[R]
                       /\ \A code \in Codes \ {R} :
                             \A d \in groups[code] \ groups[R] :
                                 d \notin last'.emitted[i].recipients]_vars

\* a members broadcast of a disconnect from one room while a connection sits
\* in the group of another room that has members and messages
C19_Witness ==
    /\ last.act = "DisconnectEmitMembers"
    /\ last.emitted[1].recipients # {}
    /\ \E code \in Codes \ {last.emitted[1].to} :
          /\ groups[code] # {}
          /\ MembersOf(store, code) # <<>>
          /\ MessagesOf(store, code) # <<>>

\* C20: with the handlers run one at a time, and as long as no two
\* connections of one room have had the same display name, whenever no
\* handler is in flight the members set of every room is exactly the set of
\* the display names of the connections that connected to it and have not
\* disconnected.
C20_MembersAreConnectedNames ==
    (~shared /\ \A c \in Clients : pc[c] = "idle") =>
        \A code \in Codes :
            Keys(MembersOf(store, code)) = {session[c].name : c \in groups[code]}

\* after a disconnect from a room that another client, of another name, is
\* still connected to
C20_Witness ==
    /\ last.act = "DisconnectEmitMembers"
    /\ ~shared
    /\ \A c \in Clients : pc[c] = "idle"
    /\ groups[session[last.by].room] # {}
    /\ Len(MembersOf(store, session[last.by].room)) = 1

====
